---------------------------- MODULE Spec2Model ----------------------------
(***************************************************************************)
(* A model of pyfuck's PNG decoder (src/pyfuck/png.py): the generator      *)
(* based file reader, the chunk loop of PNG._parse, the checksum test of   *)
(* Chunk, the header fields of IHDR, the call of zlib.decompress and the   *)
(* construction of the pixel matrix; and of the pixel remapping of         *)
(* Braincopter.eval (src/pyfuck/braincopter.py) on a decoded image.        *)
(* Spec is one call of PNG(filename); Spec2 is two calls whose steps are   *)
(* interleaved.                                                            *)
(*                                                                         *)
(* Bytes are the integers 0..255 and byte strings are sequences of them.   *)
(* An unsigned 32-bit integer that is only compared (a checksum) is kept   *)
(* as its four base-256 digits, most significant first, because TLC's      *)
(* integers are 32-bit signed.                                             *)
(***************************************************************************)
EXTENDS Integers, Sequences, FiniteSets, TLC

---------------------------------------------------------------------------
(* Bounds of the enumerated input files.                                   *)

\* largest header width of the enumerated well-formed images
MaxWidth == 2

\* largest header height of the enumerated well-formed images
MaxHeight == 2

\* largest length of the decompressed buffers tried against every header
MaxBufLen == 8

---------------------------------------------------------------------------
(* Byte strings.                                                           *)

Byte == 0..255

Min(a, b) == IF a < b THEN a ELSE b

\* Python's s[a:b] for 0 <= a, 0 <= b, on a 1-indexed sequence: the
\* bounds are clipped to the length, never an error.
Slice(s, a, b) == SubSeq(s, Min(a, Len(s)) + 1, Min(b, Len(s)))

RECURSIVE Concat(_)
\* b"".join(parts)
Concat(parts) ==
    IF parts = <<>> THEN <<>> ELSE Head(parts) \o Concat(Tail(parts))

RECURSIVE Xor(_, _)
\* bitwise exclusive or of two naturals
Xor(a, b) ==
    IF a = 0 THEN b
    ELSE IF b = 0 THEN a
    ELSE (((a % 2) + (b % 2)) % 2) + 2 * Xor(a \div 2, b \div 2)

RECURSIVE IntFromBytes(_)
\* int.from_bytes(bytes, "big"), for values below 2^31
IntFromBytes(bytes) ==
    IF bytes = <<>> THEN 0
    ELSE 256 * IntFromBytes(SubSeq(bytes, 1, Len(bytes) - 1)) + bytes[Len(bytes)]

\* the four big-endian bytes of n, 0 <= n < 2^31
U32Bytes(n) ==
    << (n \div 16777216) % 256, (n \div 65536) % 256, (n \div 256) % 256, n % 256 >>

\* the two little-endian bytes of n, 0 <= n < 2^16
U16LE(n) == << n % 256, (n \div 256) % 256 >>

\* The value of int.from_bytes(bytes, "big") for at most four bytes, as its
\* four base-256 digits: two byte strings denote the same integer exactly
\* when their digits agree.
Digits32(bytes) ==
    [i \in 1..4 |-> IF i + Len(bytes) - 4 >= 1 THEN bytes[i + Len(bytes) - 4] ELSE 0]

---------------------------------------------------------------------------
(* zlib.crc32: CRC-32 (reflected polynomial EDB88320), table driven as in  *)
(* zlib.  A register is the pair <<high 16 bits, low 16 bits>>.            *)

\* the register after one bit has been shifted out
CrcStep(c) ==
    IF c[2] % 2 = 1
    THEN << Xor(c[1] \div 2, 60856), Xor((c[2] \div 2) + (c[1] % 2) * 32768, 33568) >>
    ELSE << c[1] \div 2, (c[2] \div 2) + (c[1] % 2) * 32768 >>

CrcTable ==
    [n \in Byte |-> CrcStep(CrcStep(CrcStep(CrcStep(CrcStep(CrcStep(CrcStep(CrcStep(<<0, n>>))))))))]

Xor2(a, b) == << Xor(a[1], b[1]), Xor(a[2], b[2]) >>

\* the register after the byte b: (c >> 8) ^ table[(c ^ b) & 0xff]
CrcByte(c, b) ==
    Xor2(<< c[1] \div 256, (c[2] \div 256) + (c[1] % 256) * 256 >>,
         CrcTable[Xor(c[2] % 256, b)])

RECURSIVE CrcUpdate(_, _, _)
\* (the test of c makes TLC compute the register at every byte)
CrcUpdate(c, bytes, i) ==
    IF c[1] < 0 \/ i > Len(bytes) THEN c
    ELSE CrcUpdate(CrcByte(c, bytes[i]), bytes, i + 1)

\* the ones' complement of a register, as four base-256 digits
CrcDigits(c) ==
    << (65535 - c[1]) \div 256, (65535 - c[1]) % 256,
       (65535 - c[2]) \div 256, (65535 - c[2]) % 256 >>

\* zlib.crc32(bytes), as its four base-256 digits
CRC32(bytes) == CrcDigits(CrcUpdate(<<65535, 65535>>, bytes, 1))

\* the sums after the byte b
AdlerByte(s, b) == << (s[1] + b) % 65521, (s[2] + s[1] + b) % 65521 >>

RECURSIVE AdlerUpdate(_, _, _)
AdlerUpdate(s, bytes, i) ==
    IF s[1] < 0 \/ i > Len(bytes) THEN s
    ELSE AdlerUpdate(AdlerByte(s, bytes[i]), bytes, i + 1)

AdlerDigits(s) == << s[2] \div 256, s[2] % 256, s[1] \div 256, s[1] % 256 >>

\* the Adler-32 checksum that ends a zlib stream, as its four bytes
Adler32(bytes) == AdlerDigits(AdlerUpdate(<<1, 0>>, bytes, 1))

---------------------------------------------------------------------------
(* zlib.decompress, for streams whose deflate blocks are stored blocks     *)
(* (BTYPE 00) or of the reserved type (BTYPE 11).  Huffman coded blocks    *)
(* are outside the model: the result for them is "huffman", and the        *)
(* decompression step of the decoder is not taken on such a buffer.        *)

InflateError == [kind |-> "error", out |-> <<>>]

RECURSIVE InflateBlocks(_, _, _)
\* p is the index of the next block header; stored blocks are byte aligned
InflateBlocks(buf, p, out) ==
    IF p > Len(buf) THEN InflateError
    ELSE LET final == buf[p] % 2
             btype == (buf[p] \div 2) % 4
         IN  IF btype = 3 THEN InflateError
             ELSE IF btype # 0 THEN [kind |-> "huffman", out |-> <<>>]
             ELSE IF p + 4 > Len(buf) THEN InflateError
             ELSE LET n    == buf[p + 1] + 256 * buf[p + 2]
                      nn   == buf[p + 3] + 256 * buf[p + 4]
                      res  == out \o SubSeq(buf, p + 5, p + 4 + n)
                      q    == p + 5 + n
                  IN  IF n + nn # 65535 THEN InflateError
                      ELSE IF p + 4 + n > Len(buf) THEN InflateError
                      ELSE IF final = 0 THEN InflateBlocks(buf, q, res)
                      ELSE IF q + 3 > Len(buf) THEN InflateError
                      ELSE IF SubSeq(buf, q, q + 3) # Adler32(res) THEN InflateError
                      ELSE [kind |-> "ok", out |-> res]

\* zlib.decompress(buf): bytes after the end of the stream are ignored
Decompress(buf) ==
    IF Len(buf) < 2 THEN InflateError
    ELSE IF buf[1] % 16 # 8 \/ buf[1] \div 16 > 7 THEN InflateError
    ELSE IF (buf[1] * 256 + buf[2]) % 31 # 0 THEN InflateError
    ELSE IF (buf[2] \div 32) % 2 = 1 THEN InflateError
    ELSE InflateBlocks(buf, 3, <<>>)

---------------------------------------------------------------------------
(* The decoder's own functions.                                            *)

\* PNG.SIGNATURE = b'\x89PNG\r\n\x1a\n'
SIGNATURE == <<137, 80, 78, 71, 13, 10, 26, 10>>

\* b"IHDR"
IHDRTag == <<73, 72, 68, 82>>

\* b"IEND"
IENDTag == <<73, 69, 78, 68>>

\* f.read(howMuch) at cursor pos: at most howMuch bytes, fewer at the end
\* of the file, none when the cursor is at the end
FileRead(f, pos, howMuch) == SubSeq(f, pos + 1, Min(pos + howMuch, Len(f)))

\* The number of bytes the generator asks of the file for a value sent to
\* it: "if not howMuch: howMuch = 1".
SentHowMuch(n) == IF n = 0 THEN 1 ELSE n

\* Chunk._parseInt(bytes, start, len), as digits (at most four bytes)
ParseDigits(bytes, start, n) == Digits32(Slice(bytes, start, start + n))

\* Chunk._parseInt(bytes, start, len), as a number below 2^31
ParseInt(bytes, start, n) == IntFromBytes(Slice(bytes, start, start + n))

\* Chunk.__init__: the fields of a chunk; crc is parsed to an integer
Chunk(len, type, data, crc) ==
    [len |-> len, type |-> type, data |-> data, crc |-> ParseDigits(crc, 0, 4)]

\* Chunk.isValid (float(len).is_integer() holds of every int)
isValid(c) == Len(c.type) = 4 /\ c.crc = CRC32(c.type \o c.data)

\* IHDR.__init__ after the checksum test: the fixed-offset fields
IHDR(data, crc) ==
    [len |-> 13, type |-> IHDRTag, data |-> data, crc |-> ParseDigits(crc, 0, 4),
     width       |-> ParseInt(data, 0, 4),
     height      |-> ParseInt(data, 4, 4),
     depth       |-> ParseInt(data, 8, 1),
     colour      |-> ParseInt(data, 9, 1),
     compression |-> ParseInt(data, 10, 1),
     filter      |-> ParseInt(data, 11, 1),
     interlace   |-> ParseInt(data, 12, 1)]

\* isSimplified without its test of the filter method
isSimplified_NoFilter(h) ==
    h.depth = 8 /\ h.colour = 2 /\ h.compression = 0 /\ h.interlace = 0

\* IHDR.isSimplified
isSimplified(h) ==
    h.depth = 8 /\ h.colour = 2 /\ h.compression = 0 /\ h.filter = 0 /\ h.interlace = 0

\* number of colour components of a pixel
rgb == 3

\* a line length that leaves out the filter byte
LineLength_NoFilter(width) == width * rgb

\* one line = (filter, WIDTH * (R, G, B))
LineLength(width) == 1 + width * rgb

\* range(start, stop, step) as a sequence, step > 0
PyRange(start, stop, step) ==
    [k \in 1..(IF stop > start THEN (stop - start + step - 1) \div step ELSE 0)
        |-> start + (k - 1) * step]

\* the pixel matrix built from the decompressed buffer
BuildPixels(decompressed, width, height) ==
    LET lineLength == LineLength(width)
        xs == PyRange(1, lineLength, rgb)
        ys == PyRange(0, height, 1)
    IN  [i \in 1..Len(ys) |->
            [j \in 1..Len(xs) |->
                Slice(decompressed, ys[i] * lineLength + xs[j],
                                    ys[i] * lineLength + xs[j] + rgb)]]

---------------------------------------------------------------------------
(* The input files.  A file is built from its chunks the way the decoder   *)
(* takes it apart: length, type, data, checksum.                           *)

\* b"IDAT"
IDATTag == <<73, 68, 65, 84>>

\* b"tEXt"
TEXTTag == <<116, 69, 88, 116>>

\* a chunk with the stored length and checksum given explicitly
RawChunk(len, type, data, crc) == U32Bytes(len) \o type \o data \o crc

\* a chunk whose length and checksum are right
GoodChunk(type, data) == RawChunk(Len(data), type, data, CRC32(type \o data))

\* the 13 bytes of a header chunk
HeaderData(w, h, depth, colour, compression, filter, interlace) ==
    U32Bytes(w) \o U32Bytes(h) \o <<depth, colour, compression, filter, interlace>>

\* a zlib stream of one final stored block holding raw
Stored(raw) ==
    <<120, 1, 1>> \o U16LE(Len(raw)) \o U16LE(65535 - Len(raw)) \o raw \o Adler32(raw)

\* a buffer of n pairwise different bytes
Buffer(n) == [i \in 1..n |-> (37 * i + 10) % 256]

GoodHeader(w, h) == GoodChunk(IHDRTag, HeaderData(w, h, 8, 2, 0, 0, 0))

GoodEnd == GoodChunk(IENDTag, <<>>)

\* a file of the supported profile whose decompressed buffer is raw
Image(w, h, raw) ==
    SIGNATURE \o GoodHeader(w, h) \o GoodChunk(IDATTag, Stored(raw)) \o GoodEnd

\* the chunks of Base
BaseFields == HeaderData(1, 1, 8, 2, 0, 0, 0)

BaseHeader == GoodChunk(IHDRTag, BaseFields)

BaseStream == Stored(Buffer(4))

BaseData == GoodChunk(IDATTag, BaseStream)

\* the 1x1 image every damaged file below is derived from
Base == SIGNATURE \o BaseHeader \o BaseData \o GoodEnd

\* images whose buffer has exactly the size the header asks for
ExactImages ==
    { Image(w, h, Buffer(h * (1 + 3 * w))) : w \in 0..MaxWidth, h \in 0..MaxHeight }

\* images whose buffer has any length up to MaxBufLen
SizedImages ==
    UNION { { Image(w, h, Buffer(n)) : n \in 0..MaxBufLen } :
            w \in 0..MaxWidth, h \in 0..MaxHeight }

\* the decompressed buffer of the 3x3 image of the class's doctest
SquaresBuffer ==
    <<0, 255, 0, 0,      0, 255, 0,      0, 0, 255>> \o
    <<0, 255, 255, 255,  127, 127, 127,  0, 0, 0>> \o
    <<0, 255, 255, 0,    255, 0, 255,    0, 255, 255>>

Squares == Image(3, 3, SquaresBuffer)

\* 2x2 images of the supported profile whose scanlines begin with the
\* filter types None (0), Sub (1), Up (2), Average (3) and Paeth (4)
FilteredImages ==
    { Image(2, 2, <<t1, 10, 20, 30, 5, 6, 7>> \o <<t2, 1, 2, 3, 250, 4, 9>>) :
      t1 \in 0..4, t2 \in 0..4 }

\* files that differ from Base in the header's five one-byte fields
ProfileImages ==
    { SIGNATURE \o GoodChunk(IHDRTag, HeaderData(1, 1, d, c, m, f, i))
                \o GoodChunk(IDATTag, Stored(Buffer(4))) \o GoodEnd :
      d \in {8, 16, 1}, c \in {2, 3, 0, 6}, m \in {0, 1}, f \in {0, 1, 255}, i \in {0, 1} }

\* Base cut after t bytes
Truncations == { SubSeq(Base, 1, t) : t \in 0..(Len(Base) - 1) }

\* b with bit k flipped
FlipBit(b, k) == IF (b \div (2 ^ k)) % 2 = 1 THEN b - 2 ^ k ELSE b + 2 ^ k

\* the positions of Base that hold a chunk's length field
LengthPositions ==
    LET o1 == Len(SIGNATURE)
        o2 == o1 + Len(BaseHeader)
        o3 == o2 + Len(BaseData)
    IN  UNION { {o + 1, o + 2, o + 3, o + 4} : o \in {o1, o2, o3} }

\* Base with one bit flipped in the signature or in a chunk's type, data
\* or checksum
BitFlips ==
    { [Base EXCEPT ![p] = FlipBit(Base[p], k)] :
      p \in (1..Len(Base)) \ LengthPositions, k \in 0..7 }

\* A chunk to be written: its checksum is computed when good, and is the
\* given crc otherwise.
Good(type, data) ==
    [len |-> Len(data), type |-> type, data |-> data, good |-> TRUE, crc |-> <<>>]

Bad(len, type, data, crc) ==
    [len |-> len, type |-> type, data |-> data, good |-> FALSE, crc |-> crc]

WriteChunk(c) ==
    RawChunk(c.len, c.type, c.data, IF c.good THEN CRC32(c.type \o c.data) ELSE c.crc)

\* the file of a signature, a sequence of chunks and trailing bytes
WriteFile(sig, cs, rest) ==
    sig \o Concat([i \in 1..Len(cs) |-> WriteChunk(cs[i])]) \o rest

\* Chunk sequences that are out of the ordinary, made from the header H,
\* the data chunk D and the end chunk E of Base, its zlib stream z and its
\* header fields f.
OddLayouts(H, D, E, z, f) ==
    { \* the header is not the first chunk, or is missing
      << D, H, E >>,
      << E >>,
      << D, E >>,
      << Good(TEXTTag, <<65>>), H, D, E >>,
      \* no data chunk, an ancillary chunk, an empty data chunk
      << H, E >>,
      << H, Good(TEXTTag, <<65>>), D, E >>,
      << H, Good(IDATTag, <<>>), D, E >>,
      \* a second header chunk
      << H, D, Good(IHDRTag, HeaderData(2, 0, 8, 2, 0, 0, 0)), E >>,
      << H, D, Good(IHDRTag, HeaderData(1, 1, 8, 3, 0, 0, 0)), E >>,
      \* the stream split over two data chunks
      << H, Good(IDATTag, SubSeq(z, 1, 6)), Good(IDATTag, SubSeq(z, 7, Len(z))), E >>,
      \* an end chunk with a wrong checksum, with data, with a short checksum
      << H, D, Bad(0, IENDTag, <<>>, <<0, 0, 0, 5>>) >>,
      << H, D, Bad(1, IENDTag, <<1>>, CRC32(IENDTag \o <<0>>)) >>,
      << H, D, Good(IENDTag, <<0>>) >>,
      << H, D, Bad(0, IENDTag, <<>>, <<174, 66>>) >>,
      \* a data or header chunk with a wrong checksum or a wrong length
      << H, Bad(Len(z), IDATTag, z, <<0, 0, 0, 1>>), E >>,
      << Bad(13, IHDRTag, f, <<1, 2, 3, 4>>), D, E >>,
      << H, Bad(200, IDATTag, z, <<0, 0, 0, 1>>), E >>,
      \* a header chunk of 10, 9 and 14 bytes
      << Good(IHDRTag, SubSeq(f, 1, 10)), D, E >>,
      << Good(IHDRTag, SubSeq(f, 1, 9)), D, E >>,
      << Good(IHDRTag, f \o <<7>>), D, E >>,
      \* bytes after the zlib stream; a cut stream; a wrong Adler-32; a wrong
      \* header check; a reserved block type; wrong stored lengths
      << H, Good(IDATTag, z \o <<9, 9>>), E >>,
      << H, Good(IDATTag, SubSeq(z, 1, Len(z) - 1)), E >>,
      << H, Good(IDATTag, [z EXCEPT ![Len(z)] = (z[Len(z)] + 1) % 256]), E >>,
      << H, Good(IDATTag, [z EXCEPT ![2] = 2]), E >>,
      << H, Good(IDATTag, [z EXCEPT ![3] = 7]), E >>,
      << H, Good(IDATTag, [z EXCEPT ![6] = 0]), E >>,
      \* a header outside the supported profile, followed by a data chunk
      \* with a wrong checksum, by nothing, by no end chunk
      << Good(IHDRTag, SubSeq(f, 1, 9) \o <<3, 0, 0, 0>>),
         Bad(Len(z), IDATTag, z, <<0, 0, 0, 1>>), E >>,
      << Good(IHDRTag, SubSeq(f, 1, 9) \o <<3, 0, 0, 0>>) >>,
      << Good(IHDRTag, SubSeq(f, 1, 9) \o <<3, 0, 0, 0>>), D >>,
      \* a stream of two stored blocks
      << H, Good(IDATTag, <<120, 1, 0, 1, 0, 254, 255, 3, 1, 3, 0, 252, 255, 50, 60, 70>>
                          \o Adler32(<<3, 50, 60, 70>>)), E >> }

\* files whose chunk sequence, compressed stream, signature or end is out
\* of the ordinary
OddFiles ==
    { WriteFile(SIGNATURE, l, <<>>) :
        l \in OddLayouts(Good(IHDRTag, BaseFields), Good(IDATTag, BaseStream),
                         Good(IENDTag, <<>>), BaseStream, BaseFields) }
    \cup { Base \o <<1, 2, 3>>,
           Base \o BaseData,
           WriteFile(SIGNATURE,
                     << Good(IHDRTag, BaseFields), Good(TEXTTag, <<>>),
                        Good(IDATTag, BaseStream), Good(IENDTag, <<>>) >>,
                     BaseData \o <<1, 2>>),
           <<90, 80, 78, 71, 13, 10, 26, 10>> \o SubSeq(Base, 9, Len(Base)),
           <<71, 73, 70, 56>> }

\* every file a decode is run on
Files ==
    ExactImages \cup SizedImages \cup {Squares} \cup FilteredImages \cup ProfileImages
        \cup Truncations \cup BitFlips \cup OddFiles

\* the contents behind a path that cannot be opened (none, or unreadable)
ClosedFiles == { <<>>, Base }

---------------------------------------------------------------------------
(* The state of one decode, PNG(filename).                                 *)

VARIABLES
    file,          \* the bytes of the file behind filename
    openable,      \* whether open(filename, "rb") succeeds
    pc,            \* the position of the call in _parse, and after its
                   \* return in Braincopter.eval
    handle,        \* the file object of _reader: "none", "open", "closed"
    pos,           \* the cursor of the file object
    len,           \* _parse's local len
    type,          \* _parse's local type
    data,          \* _parse's local data
    crc,           \* _parse's local crc
    chunks,        \* self.chunks
    header,        \* self.header: <<>> while the attribute is not set
    decompressed,  \* self.decompressed
    pixels,        \* self.pixels
    outcome,       \* "Running", "Done", or the error that left the call
    reads,         \* history: every f.read issued: where in _parse, the
                   \* size asked for and the number of bytes returned
    seen,          \* history: every chunk read from the file, in order
    other          \* the state of a second call PNG(filename2) of the same
                   \* process while its thread is not running: << >> when
                   \* there is no second call

\* the state of the running call: its file and cursor, the frame of _parse,
\* the attributes of its PNG object and its history
call == << file, openable, pc, handle, pos, len, type, data, crc, chunks,
           header, decompressed, pixels, outcome, reads, seen >>

vars == << call, other >>

locals == << len, type, data, crc >>

results == << chunks, header, decompressed, pixels >>

Init ==
    /\ \/ openable = TRUE /\ file \in Files
       \/ openable = FALSE /\ file \in ClosedFiles
    /\ pc = "start"
    /\ handle = "none"
    /\ pos = 0
    /\ len = 0
    /\ type = <<>>
    /\ data = <<>>
    /\ crc = <<>>
    /\ chunks = <<>>
    /\ header = <<>>
    /\ decompressed = <<>>
    /\ pixels = <<>>
    /\ outcome = "Running"
    /\ reads = <<>>
    /\ seen = <<>>
    /\ other = <<>>

\* an exception leaves _parse and PNG(filename)
Raise(kind) == pc' = "Failed" /\ outcome' = kind

\* the generator is resumed with howMuch and reads; it ends, closing the
\* file (the with block is left), when the read returns no byte
Resume(howMuch) ==
    LET byte == FileRead(file, pos, howMuch)
    IN  /\ reads' = Append(reads, [at |-> pc, asked |-> howMuch, got |-> Len(byte)])
        /\ pos' = pos + Len(byte)
        /\ handle' = IF byte = <<>> THEN "closed" ELSE handle

\* an Open that goes on to the signature when open() has failed
Open_IgnoresFailure ==
    /\ pc = "start"
    /\ handle' = "open"
    /\ pc' = "sig"
    /\ UNCHANGED << other, outcome, file, openable, pos, locals, results, reads, seen >>

\* reader = self._reader(); next(reader): the generator runs to its first
\* yield, opening the file on the way; "NotFound" is the OSError of open()
\* (FileNotFoundError for a path that does not exist)
Open ==
    /\ pc = "start"
    /\ IF openable
       THEN /\ handle' = "open"
            /\ pc' = "sig"
            /\ UNCHANGED outcome
       ELSE /\ Raise("NotFound")
            /\ UNCHANGED handle
    /\ UNCHANGED << other, file, openable, pos, locals, results, reads, seen >>

\* reader.send(8) != PNG.SIGNATURE
ReadSignature ==
    /\ pc = "sig"
    /\ Resume(8)
    /\ LET byte == FileRead(file, pos, 8)
       IN  IF byte = <<>> THEN Raise("StopIteration")
           ELSE IF byte # SIGNATURE THEN Raise("SignatureMismatch")
           ELSE pc' = "len" /\ UNCHANGED outcome
    /\ UNCHANGED << other, file, openable, locals, results, seen >>

\* len = int.from_bytes(reader.send(4), BYTEORDER), StopIteration caught
ReadLen ==
    /\ pc = "len"
    /\ Resume(SentHowMuch(4))
    /\ LET byte == FileRead(file, pos, SentHowMuch(4))
       IN  IF byte = <<>>
           THEN Raise("UnexpectedEnd") /\ UNCHANGED len
           ELSE pc' = "type" /\ len' = IntFromBytes(byte) /\ UNCHANGED outcome
    /\ UNCHANGED << other, file, openable, type, data, crc, results, seen >>

\* type = reader.send(4)
ReadType ==
    /\ pc = "type"
    /\ Resume(SentHowMuch(4))
    /\ LET byte == FileRead(file, pos, SentHowMuch(4))
       IN  IF byte = <<>>
           THEN Raise("StopIteration") /\ UNCHANGED type
           ELSE pc' = "data" /\ type' = byte /\ UNCHANGED outcome
    /\ UNCHANGED << other, file, openable, len, data, crc, results, seen >>

\* data = reader.send(len) if len > 0 else b""
ReadData ==
    /\ pc = "data"
    /\ IF len > 0
       THEN /\ Resume(SentHowMuch(len))
            /\ LET byte == FileRead(file, pos, SentHowMuch(len))
               IN  IF byte = <<>>
                   THEN Raise("StopIteration") /\ UNCHANGED data
                   ELSE pc' = "crc" /\ data' = byte /\ UNCHANGED outcome
       ELSE /\ data' = <<>>
            /\ pc' = "crc"
            /\ UNCHANGED << outcome, reads, pos, handle >>
    /\ UNCHANGED << other, file, openable, len, type, crc, results, seen >>

\* crc = reader.send(4)
ReadCrc ==
    /\ pc = "crc"
    /\ Resume(SentHowMuch(4))
    /\ LET byte == FileRead(file, pos, SentHowMuch(4))
       IN  IF byte = <<>>
           THEN Raise("StopIteration") /\ UNCHANGED crc
           ELSE pc' = "classify" /\ crc' = byte /\ UNCHANGED outcome
    /\ UNCHANGED << other, file, openable, len, type, data, results, seen >>

\* The exception that leaves Chunk.__init__ when isValid() fails.  Its
\* message is built from str(self): for an IHDR that is IHDR.__str__, which
\* formats self.width before IHDR.__init__ has set it, so the AttributeError
\* of that lookup is what leaves instead of the ValidationException.
InvalidChunkError(tag) ==
    IF tag = IHDRTag THEN "AttributeError" ELSE "ChunkCrcMismatch"

\* a Classify that puts a new chunk at the front of self.chunks
Classify_Prepends ==
    /\ pc = "classify"
    /\ seen' = Append(seen, Chunk(len, type, data, crc))
    /\ IF type = IHDRTag
       THEN IF isValid(Chunk(13, IHDRTag, data, crc))
            THEN /\ header' = << IHDR(data, crc) >>
                 /\ pc' = "len"
                 /\ UNCHANGED << outcome, chunks >>
            ELSE Raise(InvalidChunkError(type)) /\ UNCHANGED << header, chunks >>
       ELSE IF type = IENDTag
       THEN pc' = "profile" /\ UNCHANGED << outcome, header, chunks >>
       ELSE IF isValid(Chunk(len, type, data, crc))
            THEN /\ chunks' = << Chunk(len, type, data, crc) >> \o chunks
                 /\ pc' = "len"
                 /\ UNCHANGED << outcome, header >>
            ELSE Raise(InvalidChunkError(type)) /\ UNCHANGED << header, chunks >>
    /\ UNCHANGED << other, file, openable, handle, pos, locals, decompressed, pixels, reads >>

\* "create chunk object or end": the constructors of IHDR and Chunk raise
\* when the checksum test fails (IHDR's runs Chunk.__init__(13, b"IHDR",
\* data, crc) before it parses any field); an IEND chunk is not constructed
Classify ==
    /\ pc = "classify"
    /\ seen' = Append(seen, Chunk(len, type, data, crc))
    /\ IF type = IHDRTag
       THEN IF isValid(Chunk(13, IHDRTag, data, crc))
            THEN /\ header' = << IHDR(data, crc) >>
                 /\ pc' = "len"
                 /\ UNCHANGED << outcome, chunks >>
            ELSE Raise(InvalidChunkError(type)) /\ UNCHANGED << header, chunks >>
       ELSE IF type = IENDTag
       THEN pc' = "profile" /\ UNCHANGED << outcome, header, chunks >>
       ELSE IF isValid(Chunk(len, type, data, crc))
            THEN /\ chunks' = Append(chunks, Chunk(len, type, data, crc))
                 /\ pc' = "len"
                 /\ UNCHANGED << outcome, header >>
            ELSE Raise(InvalidChunkError(type)) /\ UNCHANGED << header, chunks >>
    /\ UNCHANGED << other, file, openable, handle, pos, locals, decompressed, pixels, reads >>

\* if not self.header.isSimplified(): the attribute header does not exist
\* when no IHDR chunk was read
CheckProfile ==
    /\ pc = "profile"
    /\ IF header = <<>> THEN Raise("AttributeError")
       ELSE IF ~isSimplified(header[1]) THEN Raise("UnsupportedProfile")
       ELSE pc' = "inflate" /\ UNCHANGED outcome
    /\ UNCHANGED << other, file, openable, handle, pos, locals, results, reads, seen >>

\* self.decompressed = zlib.decompress(b"".join(chunk.data ...))
Inflate ==
    /\ pc = "inflate"
    /\ LET r == Decompress(Concat([i \in 1..Len(chunks) |-> chunks[i].data]))
       IN  /\ r.kind # "huffman"
           /\ IF r.kind = "error"
              THEN Raise("DecompressionFailure") /\ UNCHANGED decompressed
              ELSE pc' = "build" /\ decompressed' = r.out /\ UNCHANGED outcome
    /\ UNCHANGED << other, file, openable, handle, pos, locals, chunks, header, pixels,
                    reads, seen >>

\* self.pixels = [[...] for y in range(self.header.height)]; _parse returns.
\* The return drops the frame's local reader, the last reference to the
\* generator: CPython finalises it there and then, GeneratorExit is thrown
\* into it at its yield, and the with block closes the file.
Build ==
    /\ pc = "build"
    /\ pixels' = BuildPixels(decompressed, header[1].width, header[1].height)
    /\ pc' = "Done"
    /\ outcome' = "Done"
    /\ handle' = "closed"
    /\ UNCHANGED << other, file, openable, pos, locals, chunks, header, decompressed,
                    reads, seen >>

\* An exception that left _parse carries, in its traceback, the frame of
\* _parse and with it the suspended generator: the file stays open for as
\* long as the caller holds the exception.  When the caller lets go of it
\* the generator is finalised and the with block closes the file.
Release ==
    /\ pc = "Failed"
    /\ handle = "open"
    /\ handle' = "closed"
    /\ UNCHANGED << other, file, openable, pc, pos, locals, results, outcome, reads, seen >>

\* Braincopter.COMMANDS
COMMANDS ==
    << <<255, 0, 0>>, <<128, 0, 0>>, <<0, 255, 0>>, <<0, 128, 0>>, <<0, 0, 255>>,
       <<0, 0, 128>>, <<255, 255, 0>>, <<128, 128, 0>>, <<0, 255, 255>>, <<0, 128, 128>>,
       <<0, 0, 0>> >>

\* (-2 * r + 3 * g + b) % 11: Python's % takes the sign of the divisor
CommandIndex(r, g, b) == (-2 * r + 3 * g + b) % 11

\* [[self.COMMANDS[...] for r, g, b in row] for row in image.pixels]
NewPixels(px) ==
    [y \in 1..Len(px) |->
        [x \in 1..Len(px[y]) |->
            COMMANDS[CommandIndex(px[y][x][1], px[y][x][2], px[y][x][3]) + 1]]]

\* Braincopter.eval(image) on the image a decode returned (an instance of
\* PNG), up to its call of the Brainloller interpreter.  "for r, g, b in
\* row" raises ValueError at a pixel that is not of three values, before
\* image.pixels is assigned.
Eval ==
    /\ pc = "Done"
    /\ IF \A y \in 1..Len(pixels) : \A x \in 1..Len(pixels[y]) : Len(pixels[y][x]) = 3
       THEN pixels' = NewPixels(pixels) /\ pc' = "Remapped"
       ELSE pc' = "EvalFailed" /\ UNCHANGED pixels
    /\ UNCHANGED << other, file, openable, handle, pos, locals, chunks, header,
                    decompressed, outcome, reads, seen >>

Next ==
    \/ Open
    \/ ReadSignature
    \/ ReadLen
    \/ ReadType
    \/ ReadData
    \/ ReadCrc
    \/ Classify
    \/ CheckProfile
    \/ Inflate
    \/ Build
    \/ Release
    \/ Eval

Spec == Init /\ [][Next]_vars

---------------------------------------------------------------------------
(* PNG(filename) as a function of the file: what one call, run from its    *)
(* start to its end with nothing else running, leaves behind.              *)

\* the attributes and the outcome of a call
Left(kind, cs, hd, dec, px) ==
    [outcome |-> kind, chunks |-> cs, header |-> hd, decompressed |-> dec, pixels |-> px]

\* _parse after its loop, with self.chunks = cs and self.header = hd
AfterLoop(cs, hd) ==
    LET r == Decompress(Concat([i \in 1..Len(cs) |-> cs[i].data]))
    IN  IF hd = <<>> THEN Left("AttributeError", cs, hd, <<>>, <<>>)
        ELSE IF ~isSimplified(hd[1]) THEN Left("UnsupportedProfile", cs, hd, <<>>, <<>>)
        ELSE IF r.kind # "ok" THEN Left("DecompressionFailure", cs, hd, <<>>, <<>>)
        ELSE Left("Done", cs, hd, r.out, BuildPixels(r.out, hd[1].width, hd[1].height))

RECURSIVE ChunkLoop(_, _, _, _)
\* the loop of _parse with the cursor at p, self.chunks = cs, self.header = hd
ChunkLoop(f, p, cs, hd) ==
    LET l == FileRead(f, p, 4)
        t == FileRead(f, p + Len(l), 4)
        d == IF IntFromBytes(l) > 0
             THEN FileRead(f, p + Len(l) + Len(t), IntFromBytes(l))
             ELSE <<>>
        c == FileRead(f, p + Len(l) + Len(t) + Len(d), 4)
        q == p + Len(l) + Len(t) + Len(d) + Len(c)
    IN  IF l = <<>> THEN Left("UnexpectedEnd", cs, hd, <<>>, <<>>)
        ELSE IF t = <<>> \/ (IntFromBytes(l) > 0 /\ d = <<>>) \/ c = <<>>
        THEN Left("StopIteration", cs, hd, <<>>, <<>>)
        ELSE IF t = IENDTag THEN AfterLoop(cs, hd)
        ELSE IF ~isValid(Chunk(IF t = IHDRTag THEN 13 ELSE IntFromBytes(l), t, d, c))
        THEN Left(InvalidChunkError(t), cs, hd, <<>>, <<>>)
        ELSE IF t = IHDRTag THEN ChunkLoop(f, q, cs, << IHDR(d, c) >>)
        ELSE ChunkLoop(f, q, Append(cs, Chunk(IntFromBytes(l), t, d, c)), hd)

\* PNG(filename) on the file f; o: whether f can be opened
Alone(f, o) ==
    IF ~o THEN Left("NotFound", <<>>, <<>>, <<>>, <<>>)
    ELSE IF f = <<>> THEN Left("StopIteration", <<>>, <<>>, <<>>, <<>>)
    ELSE IF FileRead(f, 0, 8) # SIGNATURE
    THEN Left("SignatureMismatch", <<>>, <<>>, <<>>, <<>>)
    ELSE ChunkLoop(f, 8, <<>>, <<>>)

---------------------------------------------------------------------------
(* Two calls of PNG(filename) in one process, each on a thread of its own. *)
(* Everything a call works on is its own: the PNG object and its           *)
(* attributes (self.chunks = list() makes a new list), the frame of        *)
(* _parse, the generator made by self._reader() and the file object that   *)
(* generator opens, cursor included.  The interpreter runs one thread at a *)
(* time and may switch between any two steps.                              *)

\* the state of the running call, as stored while its thread waits
Suspended ==
    [file |-> file, openable |-> openable, pc |-> pc, handle |-> handle, pos |-> pos,
     len |-> len, type |-> type, data |-> data, crc |-> crc, chunks |-> chunks,
     header |-> header, decompressed |-> decompressed, pixels |-> pixels,
     outcome |-> outcome, reads |-> reads, seen |-> seen]

\* a call that has not started
Fresh(f, o) ==
    [file |-> f, openable |-> o, pc |-> "start", handle |-> "none", pos |-> 0,
     len |-> 0, type |-> <<>>, data |-> <<>>, crc |-> <<>>, chunks |-> <<>>,
     header |-> <<>>, decompressed |-> <<>>, pixels |-> <<>>,
     outcome |-> "Running", reads |-> <<>>, seen |-> <<>>]

\* a switch that leaves self.chunks behind, as if the list were one object
\* shared by all PNG objects
Switch_SharedChunks ==
    /\ other # <<>>
    /\ other' = << Suspended >>
    /\ file' = other[1].file /\ openable' = other[1].openable
    /\ pc' = other[1].pc /\ handle' = other[1].handle /\ pos' = other[1].pos
    /\ len' = other[1].len /\ type' = other[1].type
    /\ data' = other[1].data /\ crc' = other[1].crc
    /\ header' = other[1].header
    /\ decompressed' = other[1].decompressed /\ pixels' = other[1].pixels
    /\ outcome' = other[1].outcome
    /\ reads' = other[1].reads /\ seen' = other[1].seen
    /\ UNCHANGED chunks

\* the interpreter switches threads: the waiting call runs on, with its own
\* file object, frame and PNG object, and the running call waits
Switch ==
    /\ other # <<>>
    /\ other' = << Suspended >>
    /\ file' = other[1].file /\ openable' = other[1].openable
    /\ pc' = other[1].pc /\ handle' = other[1].handle /\ pos' = other[1].pos
    /\ len' = other[1].len /\ type' = other[1].type
    /\ data' = other[1].data /\ crc' = other[1].crc
    /\ chunks' = other[1].chunks /\ header' = other[1].header
    /\ decompressed' = other[1].decompressed /\ pixels' = other[1].pixels
    /\ outcome' = other[1].outcome
    /\ reads' = other[1].reads /\ seen' = other[1].seen

\* the files of the two calls: images of different sizes, an unsupported
\* header, a cut file, a wrong checksum, a foreign signature
PairFiles ==
    { Base,
      Image(2, 1, Buffer(7)),
      Image(1, 2, Buffer(8)),
      SIGNATURE \o GoodChunk(IHDRTag, HeaderData(1, 1, 8, 3, 0, 0, 0)) \o BaseData \o GoodEnd,
      SubSeq(Base, 1, 50),
      [Base EXCEPT ![45] = 0],
      <<71, 73, 70, 56>> }

Init2 ==
    /\ file \in PairFiles
    /\ openable = TRUE
    /\ pc = "start"
    /\ handle = "none"
    /\ pos = 0
    /\ len = 0
    /\ type = <<>>
    /\ data = <<>>
    /\ crc = <<>>
    /\ chunks = <<>>
    /\ header = <<>>
    /\ decompressed = <<>>
    /\ pixels = <<>>
    /\ outcome = "Running"
    /\ reads = <<>>
    /\ seen = <<>>
    /\ \E f \in PairFiles \cup {<<>>} :
          other = << Fresh(f, f # <<>>) >>

Next2 ==
    \/ Next
    \/ Switch

\* two calls, their steps interleaved in every way
Spec2 == Init2 /\ [][Next2]_vars

---------------------------------------------------------------------------
(* Properties.                                                             *)

\* the call has left _parse: it returned or an exception left it
Finished == pc \in {"Done", "Failed"}

\* the failures raised as ValidationException, by what they report
ValidationErrors ==
    { "SignatureMismatch", "UnexpectedEnd", "ChunkCrcMismatch", "UnsupportedProfile",
      "DecompressionFailure" }

\* chunk c of the history was stored with the checksum of its type and data
StoredCrcMatches(c) == c.crc = CRC32(c.type \o c.data)

\* C1: every chunk read from the file -- header, intermediate and terminal --
\* whose stored crc differs from CRC32(type || data) makes the decode fail
\* with ChunkCrcMismatch; no decode goes on past such a chunk.
C1_EveryChunkCrcEnforced ==
    (\A j \in 1..Len(reads) : reads[j].got = reads[j].asked) =>
        \A i \in 1..Len(seen) : ~StoredCrcMatches(seen[i]) => outcome = "ChunkCrcMismatch"

\* C2: when the first chunk after the signature does not carry the header
\* tag, the decode fails with a validation error and yields no image,
\* whatever chunks follow.
C2_FirstChunkMustBeHeader ==
    (Finished /\ seen # <<>> /\ seen[1].type # IHDRTag) => outcome \in ValidationErrors

\* C3: a decode ends in exactly one of: an image, NotFound, or one of the
\* validation error kinds; no other failure leaves the call.
C3_OnlyDocumentedOutcomes ==
    Finished => outcome \in {"Done", "NotFound"} \cup ValidationErrors

\* C4: when the 4-byte length field of the next chunk cannot be read in
\* full (0 to 3 bytes are left at a chunk boundary), the decode fails with
\* UnexpectedEnd.
C4_ShortLengthIsUnexpectedEnd ==
    (Finished /\ \E i \in 1..Len(reads) : reads[i].at = "len" /\ reads[i].got < 4)
        => outcome = "UnexpectedEnd"

\* C5: when the file ends before the type, data or crc of a chunk whose
\* length was read has been read in full, the decode fails and yields no
\* image; this holds for every chunk, the terminal chunk included.
C5_ShortReadFails ==
    (\E i \in 1..Len(reads) :
        reads[i].at \in {"type", "data", "crc"} /\ reads[i].got < reads[i].asked)
        => outcome # "Done"

\* the supported profile, by the values of the header's fields
SupportedProfile(h) ==
    h.depth = 8 /\ h.colour = 2 /\ h.compression = 0 /\ h.filter = 0 /\ h.interlace = 0

\* the chunk loop was left at a terminal chunk with a header in place
LoopEndedWithHeader ==
    Finished /\ header # <<>> /\ seen # <<>> /\ seen[Len(seen)].type = IENDTag

C7_PixelMatrixWellFormed ==
    pc = "Done" =>
        /\ Len(pixels) = header[1].height
        /\ \A y \in 1..Len(pixels) :
              /\ Len(pixels[y]) = header[1].width
              /\ \A x \in 1..Len(pixels[y]) :
                    /\ Len(pixels[y][x]) = 3
                    /\ \A k \in 1..3 : pixels[y][x][k] \in 0..255

\* byte i (counted from 0) of the decompressed buffer
B(i) == decompressed[i + 1]

\* the pixel matrix of the class's doctest
SquaresPixels ==
    << << <<255, 0, 0>>, <<0, 255, 0>>, <<0, 0, 255>> >>,
       << <<255, 255, 255>>, <<127, 127, 127>>, <<0, 0, 0>> >>,
       << <<255, 255, 0>>, <<255, 0, 255>>, <<0, 255, 255>> >> >>

C9_BadSignatureIsMismatch ==
    (Finished /\ openable /\ SubSeq(file, 1, Min(8, Len(file))) # SIGNATURE)
        => outcome = "SignatureMismatch" /\ Len(reads) = 1

\* C10: a path that cannot be opened fails with NotFound before any byte is
\* read: no validation error, no image, no signature check, no chunk.
C10_UnopenableIsNotFound ==
    (~openable /\ pc # "start") =>
        /\ pc = "Failed" /\ outcome = "NotFound"
        /\ reads = <<>> /\ seen = <<>> /\ pos = 0 /\ handle = "none"
        /\ chunks = <<>> /\ header = <<>> /\ pixels = <<>> /\ decompressed = <<>>

\* C10's case: the decode of an unopenable path, behind which a well-formed
\* image lies, has failed
C10_Witness == ~openable /\ pc = "Failed" /\ file = Base

\* C11: the file opened by a decode is released on every path that leaves
\* the decode: whenever the call has returned an image or an exception has
\* left it after the file was opened, the file is closed.
C11_HandleReleasedOnExit ==
    (Finished /\ handle # "none") => handle = "closed"

\* what a call in state d (the fields of Suspended) has left behind
LeftBy(d) == Left(d.outcome, d.chunks, d.header, d.decompressed, d.pixels)

\* the call in state d has left the decode: returned, or raised
Left2(d) == d.pc \in {"Done", "Failed"}

\* C12: the outcome of a decode is a function of the file alone.  Of two
\* calls whose steps are interleaved in any way, on the same file or on
\* different ones, each ends with the outcome, chunk list, header and pixel
\* matrix it has when it runs alone, and two calls on the same bytes end
\* with the same pixel matrix.
C12_OutcomeIsFunctionOfFile ==
    /\ Left2(Suspended) => LeftBy(Suspended) = Alone(file, openable)
    /\ other # <<>> =>
          /\ Left2(other[1]) => LeftBy(other[1]) = Alone(other[1].file, other[1].openable)
          /\ (pc = "Done" /\ other[1].pc = "Done" /\ file = other[1].file)
                => pixels = other[1].pixels

\* C12's case: two interleaved calls on different files have both returned,
\* each with its own chunk list and pixel matrix
C12_Witness ==
    /\ other # <<>>
    /\ pc = "Done" /\ other[1].pc = "Done"
    /\ file # other[1].file
    /\ chunks # other[1].chunks
    /\ pixels # other[1].pixels

\* The scanline filters of PNG for three bytes per pixel.  In a filtered
\* line byte i stands for the original byte minus a prediction made from
\* the original bytes a (one pixel to the left), b (above) and c (above
\* left), modulo 256; bytes outside the image count as 0.
PaethPredictor(a, b, c) ==
    LET Abs(x) == IF x < 0 THEN -x ELSE x
        pa == Abs(b - c)
        pb == Abs(a - c)
        pc0 == Abs(a + b - 2 * c)
    IN  IF pa <= pb /\ pa <= pc0 THEN a ELSE IF pb <= pc0 THEN b ELSE c

Prediction(t, a, b, c) ==
    CASE t = 1 -> a
      [] t = 2 -> b
      [] t = 3 -> (a + b) \div 2
      [] t = 4 -> PaethPredictor(a, b, c)
      [] OTHER -> 0

RECURSIVE ReconLine(_, _, _, _)
\* the original bytes of the filtered line filt of type t below the original
\* line prior; orig holds the bytes reconstructed so far
ReconLine(t, filt, prior, orig) ==
    IF Len(orig) >= Len(filt) THEN orig
    ELSE LET i == Len(orig) + 1
             a == IF i > 3 THEN orig[i - 3] ELSE 0
             c == IF i > 3 THEN prior[i - 3] ELSE 0
         IN  ReconLine(t, filt, prior,
                       Append(orig, (filt[i] + Prediction(t, a, prior[i], c)) % 256))

RECURSIVE ReconRows(_, _, _, _)
\* the original lines of the buffer buf of H lines of W pixels, given the
\* lines rows already reconstructed
ReconRows(buf, W, H, rows) ==
    IF Len(rows) >= H THEN rows
    ELSE LET o     == Len(rows) * (1 + 3 * W)
             prior == IF rows = <<>> THEN [i \in 1..(3 * W) |-> 0] ELSE rows[Len(rows)]
             line  == ReconLine(buf[o + 1], SubSeq(buf, o + 2, o + 1 + 3 * W), prior, <<>>)
         IN  ReconRows(buf, W, H, Append(rows, line))

\* the pixel matrix of the original image
Reconstructed(buf, W, H) ==
    LET rows == ReconRows(buf, W, H, <<>>)
    IN  [y \in 1..H |-> [x \in 1..W |-> SubSeq(rows[y], 3 * x - 2, 3 * x)]]

\* C13: an image whose scanlines are encoded with a Sub, Up, Average or
\* Paeth filter decodes to the reconstructed values of the original image,
\* the pixel matrix of the same image encoded with unfiltered scanlines,
\* and not to the filtered bytes.
C13_FilteredScanlinesReconstructed ==
    (/\ pc = "Done"
     /\ Len(decompressed) = header[1].height * (1 + 3 * header[1].width)
     /\ \A y \in 0..(header[1].height - 1) : B(y * (1 + 3 * header[1].width)) \in 0..4)
        => pixels = Reconstructed(decompressed, header[1].width, header[1].height)

\* the first chunk read is a header chunk of 13 bytes with the right
\* checksum whose fields are outside the supported profile
FirstIsUnsupportedHeader ==
    /\ seen # <<>>
    /\ seen[1].type = IHDRTag /\ Len(seen[1].data) = 13
    /\ StoredCrcMatches(seen[1])
    /\ ~SupportedProfile(IHDR(seen[1].data, <<>>))

\* C14: the profile of the header is checked before any later chunk is
\* processed: a file whose first chunk is a checksum-valid header outside
\* the supported profile fails with UnsupportedProfile, and nothing after
\* the header is read -- also when a later chunk has a wrong checksum, the
\* file ends after the header, or the terminal chunk is missing.
C14_ProfileCheckedAtHeader ==
    (Finished /\ FirstIsUnsupportedHeader) =>
        /\ outcome = "UnsupportedProfile"
        /\ Len(seen) = 1
        /\ Len(reads) = 5

\* C15: an image has exactly one header chunk and it is the file's first
\* chunk: no chunk read later, a later chunk with the header tag included,
\* changes the header, so after a successful decode the header, its width
\* and height included, is that of the first chunk of the file.
C15_HeaderIsFirstChunk ==
    pc = "Done" =>
        /\ seen[1].type = IHDRTag
        /\ \A i \in 2..Len(seen) : seen[i].type # IHDRTag
        /\ header[1].data = seen[1].data
        /\ header[1].width = ParseInt(seen[1].data, 0, 4)
        /\ header[1].height = ParseInt(seen[1].data, 4, 4)

\* C16: every header chunk accepted by a successful decode has the declared
\* length 13 and a payload of exactly 13 bytes, and the header's fields are
\* the bytes of that payload at the offsets 0, 4, 8, 9, 10, 11 and 12; a
\* chunk with the header tag and a shorter or longer payload is never
\* accepted as a header of the supported profile, its checksum being right.
C16_HeaderPayloadIs13Bytes ==
    pc = "Done" =>
        \A i \in 1..Len(seen) :
            seen[i].type = IHDRTag =>
                /\ seen[i].len = 13
                /\ Len(seen[i].data) = 13
                /\ header[1].data = seen[i].data =>
                      /\ header[1].width = IntFromBytes(SubSeq(seen[i].data, 1, 4))
                      /\ header[1].height = IntFromBytes(SubSeq(seen[i].data, 5, 8))
                      /\ << header[1].depth, header[1].colour, header[1].compression,
                            header[1].filter, header[1].interlace >>
                            = SubSeq(seen[i].data, 9, 13)

RECURSIVE Layout(_, _)
\* The chunks that lie in the file f from offset p on, up to and including
\* the first chunk with the terminal tag: each with its declared length,
\* its type, data and crc, and the offset end of the byte after it.
Layout(f, p) ==
    IF p >= Len(f) THEN <<>>
    ELSE LET n == IntFromBytes(Slice(f, p, p + 4))
             c == [len |-> n, type |-> Slice(f, p + 4, p + 8),
                   data |-> Slice(f, p + 8, p + 8 + n),
                   crc |-> Digits32(Slice(f, p + 8 + n, p + 12 + n)),
                   end |-> Min(p + 12 + n, Len(f))]
         IN  IF c.type = IENDTag THEN << c >> ELSE << c >> \o Layout(f, c.end)

\* the chunk carries neither the header tag nor the terminal tag
Intermediate(c) == c.type # IHDRTag /\ c.type # IENDTag

\* C17: after a successful decode self.chunks is exactly the sequence, in
\* file order, of the chunks that lie before the first terminal chunk and
\* carry neither the header nor the terminal tag, each with its declared
\* length, type, data and crc; the buffer given to the decompressor is the
\* concatenation of their data in that order; and no byte after the first
\* terminal chunk is read.
C17_ChunksInFileOrder ==
    pc = "Done" =>
        LET L == Layout(file, Len(SIGNATURE))
            M == SelectSeq(L, Intermediate)
        IN  /\ L[Len(L)].type = IENDTag
            /\ chunks = [i \in 1..Len(M) |->
                            [len |-> M[i].len, type |-> M[i].type,
                             data |-> M[i].data, crc |-> M[i].crc]]
            /\ Decompress(Concat([i \in 1..Len(M) |-> M[i].data]))
                  = [kind |-> "ok", out |-> decompressed]
            /\ pos <= L[Len(L)].end

\* C17's case: a decode that collected several chunks has returned, and
\* the file goes on after its first terminal chunk
C17_Witness ==
    /\ pc = "Done"
    /\ Len(chunks) >= 2
    /\ pos < Len(file)

RECURSIVE BytesFrom(_)
\* The number of bytes returned by the reads of the loop iteration the
\* history rs ends with: the reads from the last read of a length on.
BytesFrom(rs) ==
    IF rs = <<>> THEN 0
    ELSE IF rs[Len(rs)].at = "len" THEN rs[Len(rs)].got
    ELSE rs[Len(rs)].got + BytesFrom(SubSeq(rs, 1, Len(rs) - 1))

\* C18: the decode of a finite file ends.  A read that does not end the
\* decode moves the cursor forward, so there are finitely many reads;
\* Failed is absorbing, with no read, no chunk appended and no pixel built
\* after a failure; and every iteration of the chunk loop that does not
\* fail moves the cursor forward by the 12 framing bytes at least.
C18_LoopAdvancesAndFailedAbsorbs ==
    [][ /\ (reads' # reads /\ pc' # "Failed") => pos' > pos
        /\ pc = "Failed" =>
              /\ pc' = "Failed" /\ outcome' = outcome
              /\ reads' = reads /\ pos' = pos
              /\ chunks' = chunks /\ pixels' = pixels
        /\ (pc = "classify" /\ pc' # "Failed") => BytesFrom(reads) >= 12 ]_vars

\* the matrix q has the rows and columns of the matrix p
SameDimensions(p, q) ==
    Len(q) = Len(p) /\ \A y \in 1..Len(p) : Len(q[y]) = Len(p[y])

\* C19: Braincopter.eval replaces the pixel matrix of the image by one of
\* the same dimensions in which the pixel (r, g, b) has become
\* COMMANDS[(-2r + 3g + b) mod 11]; the index is in 0..10 for all bytes r,
\* g, b, every new pixel is one of the 11 command colours, and the header,
\* the chunk list and the file of the image are left as they were.
C19_EvalRemapsPixels ==
    [][ pc = "Done" =>
          /\ pc' = "Remapped"
          /\ SameDimensions(pixels, pixels')
          /\ \A y \in 1..Len(pixels) : \A x \in 1..Len(pixels[y]) :
                LET i == (-2 * pixels[y][x][1] + 3 * pixels[y][x][2] + pixels[y][x][3]) % 11
                IN  /\ i \in 0..10
                    /\ pixels'[y][x] = COMMANDS[i + 1]
                    /\ \E k \in 1..11 : pixels'[y][x] = COMMANDS[k]
          /\ header' = header /\ chunks' = chunks /\ file' = file ]_vars

=============================================================================
